---- MODULE Spec2Model ----
(***************************************************************************)
(* Model of the quoting engine of hyper-bot: the order-book feed           *)
(* (OrderBookWS), the acknowledgement classifier and id helpers            *)
(* (MakerBot._extract_status_and_oid, _valid_oid, _coerce_oid_for_cancel), *)
(* the price quantization of ExchangeAdapter.place_limit and the decision  *)
(* loop MakerBot.loop with its TTL sweep.                                  *)
(*                                                                         *)
(* Numbers.  Feed prices are integers in units of 10^-3.  A raw order      *)
(* price is an integer in units of 10^-9, which represents                 *)
(* bid * (1 - 1e-6) and ask * (1 + 1e-6) exactly.                          *)
(* Python values of mixed type (None, int, str) are tagged records; a      *)
(* string is a sequence of one-character strings.                          *)
(***************************************************************************)
EXTENDS Integers, Sequences, FiniteSets, TLC

\* ------------------------------------------------------------------ bounds

\* Largest time the model clock reaches.
MaxTime == 4

\* args.ttl, in clock ticks.
TtlSeconds == 2

\* ----------------------------------------------------------- Python values

PyNone == [t |-> "none", n |-> 0, s |-> <<>>]

PyInt(k) == [t |-> "int", n |-> k, s |-> <<>>]

PyStr(cs) == [t |-> "str", n |-> 0, s |-> cs]

IsNone(v) == v.t = "none"

\* The literal "filled" that _place_limit_usd returns for a filled order.
FilledStr == PyStr(<<"f", "i", "l", "l", "e", "d">>)

\* ----------------------------------------------------------------- strings

DigitSeq == <<"0", "1", "2", "3", "4", "5", "6", "7", "8", "9">>

Digits == {DigitSeq[i] : i \in 1..10}

DigitVal(c) == (CHOOSE i \in 1..10 : DigitSeq[i] = c) - 1

UpperSeq == <<"F", "I", "L", "E", "D", "A", "B">>

LowerSeq == <<"f", "i", "l", "e", "d", "a", "b">>

\* str.lower() on one character.
LowerChar(c) ==
    IF \E i \in 1..Len(UpperSeq) : UpperSeq[i] = c
    THEN LowerSeq[CHOOSE i \in 1..Len(UpperSeq) : UpperSeq[i] = c]
    ELSE c

Lower(cs) == [i \in 1..Len(cs) |-> LowerChar(cs[i])]

IsSpace(c) == c = " "

RECURSIVE LStrip(_)
LStrip(cs) ==
    IF cs # <<>> /\ IsSpace(Head(cs)) THEN LStrip(Tail(cs)) ELSE cs

RECURSIVE RStrip(_)
RStrip(cs) ==
    IF cs # <<>> /\ IsSpace(cs[Len(cs)])
    THEN RStrip(SubSeq(cs, 1, Len(cs) - 1))
    ELSE cs

\* str.strip()
Strip(cs) == RStrip(LStrip(cs))

\* The character U+00B2, SUPERSCRIPT TWO: str.isdigit() counts it as a digit
\* (Unicode Numeric_Type=Digit), int() does not accept it.
SuperscriptTwo == "^2"

\* str.isdigit(): non-empty and every character a digit.
IsDigitStr(cs) ==
    cs # <<>> /\ \A i \in 1..Len(cs) : cs[i] \in Digits \cup {SuperscriptTwo}

\* int(s) raises ValueError: s has a character that is no decimal digit.
IntRaises(cs) == \E i \in 1..Len(cs) : cs[i] \notin Digits

\* int(s) for a string of digits.
RECURSIVE ParseInt(_)
ParseInt(cs) ==
    IF cs = <<>> THEN 0
    ELSE 10 * ParseInt(SubSeq(cs, 1, Len(cs) - 1)) + DigitVal(cs[Len(cs)])

\* ------------------------------------------------------------ order ids

\* MakerBot._valid_oid
ValidOid_NoFilledGuard(oid) ==
    IF oid.t = "int" THEN oid.n > 0
    ELSE IF oid.t = "str" THEN Strip(oid.s) # <<>>
    ELSE FALSE

ValidOid(oid) ==
    IF oid.t = "int" THEN oid.n > 0
    ELSE IF oid.t = "str"
         THEN LET s == Lower(Strip(oid.s))
              IN  s # <<>> /\ s # FilledStr.s
    ELSE FALSE

\* A call that raised instead of returning a value.
PyRaised == [t |-> "raise", n |-> 0, s |-> <<>>]

\* MakerBot._coerce_oid_for_cancel
CoerceOidForCancel(oid) ==
    IF oid.t = "str" /\ IsDigitStr(oid.s)
    THEN IF IntRaises(oid.s) THEN PyRaised ELSE PyInt(ParseInt(oid.s))
    ELSE oid

\* ------------------------------------------------------ acknowledgements

\* A value that is neither None, an int nor a str (a float, a list, ...).
PyOther == [t |-> "other", n |-> 0, s |-> <<>>]

\* What a status entry holds under a marker key.  p = "absent": the key is
\* missing; p = "dict": a dict, with hasoid saying whether it has the key
\* "oid" and v its value; p = "val": any other value v.
NoPayload == [p |-> "absent", hasoid |-> FALSE, v |-> PyNone]

DictPayload(hasoid, v) == [p |-> "dict", hasoid |-> hasoid, v |-> v]

ValPayload(v) == [p |-> "val", hasoid |-> FALSE, v |-> v]

\* The "order is open" markers, in the order the code tries them.
OpenKeys == <<"resting", "open", "opened", "placed", "working", "live", "accepted">>

NoOpen == [k \in 1..Len(OpenKeys) |-> NoPayload]

\* A first status entry: kind "dict" with its keys, or "other" (not a dict).
St0(error, filled, open, oid) ==
    [kind |-> "dict", error |-> error, filled |-> filled, open |-> open, oid |-> oid]

St0Other == [kind |-> "other", error |-> FALSE, filled |-> NoPayload,
             open |-> NoOpen, oid |-> PyNone]

\* An acknowledgement.  kind: "dict" or "other" (not a dict); status: the
\* value under "status"; response, data: "dict", "absent" or "other" (present
\* and not a dict); skind: what "statuses" holds: "absent", "list" (items) or
\* "other".
Ack(status, response, data, skind, items) ==
    [kind |-> "dict", status |-> status, response |-> response, data |-> data,
     skind |-> skind, items |-> items]

AckOther == [kind |-> "other", status |-> "absent", response |-> "absent",
             data |-> "absent", skind |-> "absent", items |-> <<>>]

AckOk(st0) == Ack("ok", "dict", "dict", "list", <<st0>>)

\* What ExchangeAdapter.place_limit and cancel return when the SDK raises.
AckException == Ack("error", "absent", "absent", "absent", <<>>)

\* MakerBot._extract_oid_like
ExtractOidLike_NoFallback(container, fallback) ==
    IF container.p = "dict"
    THEN IF container.hasoid THEN container.v ELSE PyNone
    ELSE IF container.v.t \in {"int", "str"} THEN container.v ELSE PyNone

ExtractOidLike(container, fallback) ==
    IF container.p = "dict"
    THEN IF container.hasoid THEN container.v ELSE fallback
    ELSE IF container.v.t \in {"int", "str"} THEN container.v ELSE fallback

Result(status, oid) == [raised |-> FALSE, status |-> status, oid |-> oid]

Raised == [raised |-> TRUE, status |-> "error", oid |-> PyNone]

\* The for loop over the open markers (lines 164-168), from marker i on:
\* the first marker present whose id is extractable, else what follows the
\* loop (lines 171-175).
RECURSIVE OpenLoop(_, _)
OpenLoop(st0, i) ==
    IF i > Len(OpenKeys)
    THEN IF ~IsNone(st0.oid) THEN Result("resting", st0.oid)
         ELSE Result("error", PyNone)
    ELSE IF st0.open[i].p # "absent"
            /\ ~IsNone(ExtractOidLike(st0.open[i], st0.oid))
         THEN Result("resting", ExtractOidLike(st0.open[i], st0.oid))
         ELSE OpenLoop(st0, i + 1)

\* The body of the try block of _extract_status_and_oid (lines 144-175).
ExtractTry(res) ==
    IF res.kind # "dict" THEN Raised
    ELSE IF res.status # "ok" THEN Result("error", PyNone)
    ELSE IF res.response = "other" THEN Raised
    ELSE IF res.response = "dict" /\ res.data = "other" THEN Raised
    ELSE IF res.response = "absent" \/ res.data = "absent" THEN Result("error", PyNone)
    ELSE IF res.skind # "list" \/ res.items = <<>> THEN Result("error", PyNone)
    ELSE LET st0 == res.items[1]
         IN  IF st0.kind # "dict" THEN Raised
             ELSE IF st0.error THEN Result("error", PyNone)
             ELSE IF st0.filled.p # "absent"
                  THEN Result("filled", ExtractOidLike(st0.filled, st0.oid))
             ELSE OpenLoop(st0, 1)

\* MakerBot._extract_status_and_oid: any exception becomes ("error", None).
ExtractStatusAndOid(res) ==
    LET r == ExtractTry(res)
    IN  IF r.raised THEN Result("error", PyNone) ELSE r

\* --------------------------------------------------------------- numbers

RECURSIVE Pow10(_)
Pow10(n) == IF n <= 0 THEN 1 ELSE 10 * Pow10(n - 1)

Min(a, b) == IF a < b THEN a ELSE b

Max(a, b) == IF a > b THEN a ELSE b

\* A feed price p (units of 10^-3) as a raw price (units of 10^-9).
Raw(p) == p * Pow10(6)

\* eps = 1e-6 is 1 / EpsDen.
EpsDen == 1000000

\* bid * (1 - eps), as a raw price.
MakerBuyPx(bid) == bid * (EpsDen - 1)

\* ask * (1 + eps), as a raw price.
MakerSellPx(ask) == ask * (EpsDen + 1)

\* The size decimals _sz_decimals_for_market falls back to.
DefaultSzDecimals == 6

\* px_dec = max(0, min(8 - sz_dec, 8))
PxDecimals(sz_dec) == Max(0, Min(8 - sz_dec, 8))

\* float(f"{px:.{px_dec}f}") of a raw price >= 0: the nearest multiple of
\* 10^-px_dec, a tie going to the even one (Python formats the exact value
\* of the float).
FormatFixed(raw, px_dec) ==
    LET g == Pow10(9 - px_dec)
        q == raw \div g
        r == raw % g
    IN  IF 2 * r > g \/ (2 * r = g /\ q % 2 = 1) THEN (q + 1) * g ELSE q * g

\* ------------------------------------------------------------- the feed

\* A level of the book in tagged-field form {'px': p, 'sz': ..} or in
\* positional form [p, sz].
NoPx == -1

DictLevel(p) == [form |-> "dict", px |-> p, e0 |-> NoPx]

ListLevel(p) == [form |-> "list", px |-> NoPx, e0 |-> p]

\* A level _px cannot read: a dict without the key 'px', an empty list, a
\* number, a price that is no numeral.
BadLevel == [form |-> "bad", px |-> NoPx, e0 |-> NoPx]

\* OrderBookWS._px
Px(entry) == IF entry.form = "dict" THEN entry.px ELSE entry.e0

\* OrderBookWS._px raises (KeyError, IndexError, TypeError, ValueError).
PxRaises(entry) == entry.form = "bad"

\* The l2Book updates the exchange sends in the model: levels[0] (bids) and
\* levels[1] (asks).  The first has a spread of exactly 5%, the second of 1%;
\* the levels of the third are malformed (on_message stores what it gets).
Books ==
    << [bids |-> <<DictLevel(20), DictLevel(19)>>, asks |-> <<DictLevel(21)>>],
       [bids |-> <<ListLevel(100)>>, asks |-> <<ListLevel(101), ListLevel(102)>>],
       [bids |-> <<BadLevel>>, asks |-> <<BadLevel>>] >>

\* One side of best_prices: the price of the first level, None when empty.
BestOf(side) == IF side # <<>> THEN Px(side[1]) ELSE NoPx

\* One side of best_prices raises: the side is non-empty and its first level
\* cannot be read.
BestRaises(side) == side # <<>> /\ PxRaises(side[1])

\* ----------------------------------------------------- the resting table

\* A Python dict as the sequence of its items [k, v] in insertion order.
DictKeys(d) == {d[i].k : i \in DOMAIN d}

DictGet(d, k) == d[CHOOSE i \in DOMAIN d : d[i].k = k].v

DictSet(d, k, v) ==
    IF k \in DictKeys(d)
    THEN [i \in DOMAIN d |-> IF d[i].k = k THEN [k |-> k, v |-> v] ELSE d[i]]
    ELSE Append(d, [k |-> k, v |-> v])

RECURSIVE DictPop(_, _)
DictPop(d, k) ==
    IF d = <<>> THEN <<>>
    ELSE IF Head(d).k = k THEN DictPop(Tail(d), k)
    ELSE <<Head(d)>> \o DictPop(Tail(d), k)

\* ----------------------------------------------------------------- state

VARIABLES
    makerOnly,     \* args.maker_only
    marketSzDec,   \* szDecimals of the market's base token in spot_meta
    bids,          \* OrderBookWS.bids
    asks,          \* OrderBookWS.asks
    bidsFrom,      \* history: index in Books of the update that stored bids (0: none)
    asksFrom,      \* history: index in Books of the update that stored asks (0: none)
    wsMsg,         \* feed thread: 0, or the update whose bids are stored and asks not yet
    now,           \* time.time()
    pc,            \* decision loop: where it stands
    bid,           \* loop local
    ask,           \* loop local
    bidFrom,       \* history: the update the local bid was read from
    bidConn,       \* history: self.connected when the local bid was read
    askFrom,       \* history: the update the local ask was read from
    oid_b,         \* loop local
    oid_s,         \* loop local
    now_l,         \* loop local `now` (line 239)
    to_cancel,     \* loop local: the ids still to cancel
    resting,       \* MakerBot.resting
    sent,          \* history: the last order submitted to the exchange
    legs,          \* history: the classified acknowledgements of this iteration
    cancels,       \* history: the gateway cancels of this iteration
    selected,      \* history: to_cancel as the sweep of this iteration computed it
    stoppedAt,     \* history: where the loop stood when KeyboardInterrupt arrived
    cl_in,         \* classifier harness: the acknowledgement
    cl_out,        \* classifier harness: the result
    connected,     \* OrderBookWS.connected
    ws_state,      \* feed thread: "connecting", "open", or "ended" (run_forever returned)
    subs,          \* history: subscribe messages sent since the last connection open
    start_pc,      \* OrderBookWS.start: "polling", "returned" or "failed"
    polls,         \* OrderBookWS.start: polls of self.connected done
    fd_msg,        \* on_message harness: the message handled last
    q_in,          \* quantization harness: market, raw size and raw price
    q_out,         \* quantization harness: what place_limit submits
    co_in,         \* id harness: the id
    co_out,        \* id harness: what _coerce_oid_for_cancel gives
    BOT_PROC,      \* web shim: the handle of the bot subprocess (0: None)
    BOT_LOCK,      \* web shim: "free", or who holds the lock
    web_pc,        \* web shim: what the event loop's thread is running
    web_req,       \* web shim: the payload of the /start request being handled
    web_log,       \* history: the responses given, in order
    procs,         \* the bot subprocesses that are alive
    launched,      \* history: the number of subprocesses launched
    signals,       \* history: the signals the last stop sent
    LOGS,          \* web shim: the log buffer
    LOG_NEXT,      \* web shim: the global index of the next line
    lg_out,        \* log harness: what /logs answered last
    log_calls      \* history: the number of _append_log calls

vars == <<makerOnly, marketSzDec, bids, asks, bidsFrom, asksFrom, wsMsg, now, pc,
          bid, ask, bidFrom, bidConn, askFrom, oid_b, oid_s, now_l, to_cancel, resting,
          sent, legs, cancels, selected, stoppedAt, cl_in, cl_out,
          connected, ws_state, subs, start_pc, polls, fd_msg, q_in, q_out, co_in, co_out,
          BOT_PROC, BOT_LOCK, web_pc, web_req, web_log, procs, launched, signals,
          LOGS, LOG_NEXT, lg_out, log_calls>>

cfgVars == <<makerOnly, marketSzDec>>

feedVars == <<bids, asks, bidsFrom, asksFrom, wsMsg>>

readVars == <<bid, ask, bidFrom, bidConn, askFrom>>

loopVars == <<pc, readVars, oid_b, oid_s, now_l, to_cancel, resting, sent, legs,
              cancels, selected, stoppedAt>>

wsVars == <<connected, ws_state, subs, start_pc, polls>>

webVars == <<BOT_PROC, BOT_LOCK, web_pc, web_req, web_log, procs, launched, signals>>

logVars == <<LOGS, LOG_NEXT, lg_out, log_calls>>

fnVars == <<fd_msg, q_in, q_out, co_in, co_out, webVars, logVars>>

clVars == <<cl_in, cl_out, wsVars, fnVars>>

\* The szDecimals the exchange metadata declares for the market.
SzDecChoices == {5}

\* args.min_spread, in percent.
MinSpreadPct == 5

NotRun == Result("none", PyNone)

\* No id given, _coerce_oid_for_cancel not applied.
CoNotRun == [n |-> 0, v |-> PyNone, v1 |-> PyNone]

\* No quantization asked for, none done.
QNoInput == [d |-> 0, szT |-> 0, pT |-> 0]

QNotRun == [n |-> 0, size |-> 0, px |-> 0, size1 |-> 0, px1 |-> 0]

\* An inbound feed message.  parse: "ok" (JSON object), "nondict" (JSON, but
\* no object) or "bad" (no JSON); channel: "l2Book" or "other"; data: what
\* "data" holds, "dict", "absent" or "other"; lk: what "levels" holds,
\* "list", "absent" or "other"; sides: the items of levels.  A side is a
\* sequence of levels; a side that is no list at all (a number, a dict) is
\* written <<BadLevel>>: its first level cannot be read either.
Msg(parse, channel, data, lk, sides) ==
    [parse |-> parse, channel |-> channel, data |-> data, lk |-> lk, sides |-> sides]

NoMsg == Msg("none", "other", "absent", "absent", <<>>)

\* The feed as main() hands it to the loop: start has returned on an open
\* connection, one subscribe sent.
WsStarted ==
    /\ connected = TRUE
    /\ ws_state = "open"
    /\ subs = 1
    /\ start_pc = "returned"
    /\ polls = 0

\* No /start payload at hand.
NoStartPayload == [numbers_ok |-> TRUE, agent_pk |-> "none"]

\* /logs not asked.
LogsNotRun == [n |-> 0, since |-> 0, next |-> 0, lines |-> <<>>, at |-> 0]

\* The web shim after import: no subprocess, the lock free, the event loop
\* idle, no log line.
WebIdle ==
    /\ BOT_PROC = 0
    /\ BOT_LOCK = "free"
    /\ web_pc = "idle"
    /\ web_req = NoStartPayload
    /\ web_log = <<>>
    /\ procs = {}
    /\ launched = 0
    /\ signals = <<>>

LogsIdle ==
    /\ LOGS = <<>>
    /\ LOG_NEXT = 0
    /\ lg_out = LogsNotRun
    /\ log_calls = 0

FnIdle ==
    /\ fd_msg = NoMsg
    /\ q_in = QNoInput
    /\ q_out = QNotRun
    /\ co_in = PyNone
    /\ co_out = CoNotRun
    /\ WebIdle
    /\ LogsIdle

NoOrder == [side |-> "none", px |-> 0, limit_px |-> 0, sz_dec |-> 0, px_dec |-> 0]

Init ==
    /\ makerOnly \in BOOLEAN
    /\ marketSzDec \in SzDecChoices
    /\ bids = <<>>
    /\ asks = <<>>
    /\ bidsFrom = 0
    /\ asksFrom = 0
    /\ wsMsg = 0
    /\ now = 0
    /\ pc = "best_bids"
    /\ bid = NoPx
    /\ ask = NoPx
    /\ bidFrom = 0
    /\ bidConn = TRUE
    /\ askFrom = 0
    /\ oid_b = PyNone
    /\ oid_s = PyNone
    /\ now_l = 0
    /\ to_cancel = <<>>
    /\ resting = <<>>
    /\ sent = NoOrder
    /\ legs = <<>>
    /\ cancels = <<>>
    /\ selected = <<>>
    /\ stoppedAt = "none"
    /\ cl_in = AckOther
    /\ cl_out = NotRun
    /\ WsStarted
    /\ FnIdle

\* The loop before its first iteration, for the specifications that look at
\* one part of the program alone.
LoopIdle ==
    /\ makerOnly = TRUE
    /\ marketSzDec \in SzDecChoices
    /\ bids = <<>>
    /\ asks = <<>>
    /\ bidsFrom = 0
    /\ asksFrom = 0
    /\ wsMsg = 0
    /\ now = 0
    /\ pc = "best_bids"
    /\ bid = NoPx
    /\ ask = NoPx
    /\ bidFrom = 0
    /\ bidConn = TRUE
    /\ askFrom = 0
    /\ oid_b = PyNone
    /\ oid_s = PyNone
    /\ now_l = 0
    /\ to_cancel = <<>>
    /\ resting = <<>>
    /\ sent = NoOrder
    /\ legs = <<>>
    /\ cancels = <<>>
    /\ selected = <<>>
    /\ stoppedAt = "none"

Running == pc # "stopped"

\* ------------------------------------------------------------------ feed

\* OrderBookWS.on_message, line 46: self.bids, self.asks = lvls[0], lvls[1]
\* is two attribute stores with no lock; this is the first.
OnMessageBids(b) ==
    /\ Running
    /\ wsMsg = 0
    /\ bids' = Books[b].bids
    /\ bidsFrom' = b
    /\ wsMsg' = b
    /\ UNCHANGED <<cfgVars, asks, asksFrom, now, pc, readVars, oid_b, oid_s, now_l,
                   to_cancel, resting, sent, legs, cancels, selected, stoppedAt, clVars>>

\* The second store of line 46.
OnMessageAsks ==
    /\ Running
    /\ wsMsg # 0
    /\ asks' = Books[wsMsg].asks
    /\ asksFrom' = wsMsg
    /\ wsMsg' = 0
    /\ UNCHANGED <<cfgVars, bids, bidsFrom, now, pc, readVars, oid_b, oid_s, now_l,
                   to_cancel, resting, sent, legs, cancels, selected, stoppedAt, clVars>>

\* time.time() advances.
Tick ==
    /\ Running
    /\ now < MaxTime
    /\ now' = now + 1
    /\ UNCHANGED <<cfgVars, feedVars, pc, readVars, oid_b, oid_s, now_l,
                   to_cancel, resting, sent, legs, cancels, selected, stoppedAt, clVars>>

\* ------------------------------------------------------------ the gateway

RestingAck(payload) == AckOk(St0(FALSE, NoPayload, [NoOpen EXCEPT ![1] = payload], PyNone))

FilledAck(payload) == AckOk(St0(FALSE, payload, NoOpen, PyNone))

ErrorAck == AckOk(St0(TRUE, NoPayload, NoOpen, PyNone))

\* What exchange.order may answer in the model: a resting order with an
\* integer id (0 is not a valid id) or with the id as a string of digits; a
\* filled order; a rejection.
OrderAcks ==
    {RestingAck(DictPayload(TRUE, PyInt(0))),
     RestingAck(DictPayload(TRUE, PyInt(1))),
     RestingAck(DictPayload(TRUE, PyStr(<<"7">>))),
     FilledAck(DictPayload(TRUE, PyInt(9))),
     ErrorAck}

\* exchange.order returns an acknowledgement or raises.
OrderOutcomes ==
    {[raise |-> FALSE, res |-> a] : a \in OrderAcks}
    \cup {[raise |-> TRUE, res |-> AckOther]}

\* exchange.cancel returns ok, returns an error, or raises.
CancelOutcomes == {"ok", "error", "raise"}

\* ExchangeAdapter.place_limit, lines 208-221: the acknowledgement, or the
\* error dict when the SDK raises.
PlaceLimit(out) == IF out.raise THEN AckException ELSE out.res

\* ExchangeAdapter.cancel: what the caller gets (an exception never leaves it).
AdapterCancel(out) == [raised |-> FALSE, ok |-> out = "ok"]

\* ExchangeAdapter._sz_decimals_for_market: the declared decimals, or the
\* default when the metadata query fails or the market is not found.
SzDecimalsForMarket(metaOk) == IF metaOk THEN marketSzDec ELSE DefaultSzDecimals

\* The limit price place_limit submits for a raw price (lines 186-193).
LimitPx(px, metaOk) == FormatFixed(px, PxDecimals(SzDecimalsForMarket(metaOk)))

\* MakerBot._place_limit_usd, lines 199-205: what it returns for an
\* acknowledgement.
PlaceLimitUsd(res) ==
    LET r == ExtractStatusAndOid(res)
    IN  IF r.status = "filled" THEN FilledStr
        ELSE IF r.status = "resting" /\ ValidOid(r.oid) THEN r.oid
        ELSE PyNone

\* --------------------------------------------------------------- the loop

\* Python truth value of a price: None and 0.0 are false.
Falsy(p) == p = NoPx \/ p = 0

\* spread < min_spread, with spread = _spread_pct(bid, ask)
\* = (ask - bid) / bid * 100 (0.0 when a side is false).
SpreadBelowMin_Inclusive(b, a) ==
    IF Falsy(b) \/ Falsy(a) THEN 0 <= MinSpreadPct
    ELSE (a - b) * 100 <= MinSpreadPct * b

SpreadBelowMin(b, a) ==
    IF Falsy(b) \/ Falsy(a) THEN 0 < MinSpreadPct
    ELSE (a - b) * 100 < MinSpreadPct * b

\* Lines 227-233: the raw prices of the two legs.
BuyPx_AtBid(b, a) == IF makerOnly THEN MakerBuyPx(b) ELSE Raw(b)

BuyPx(b, a) == IF makerOnly THEN MakerBuyPx(b) ELSE Raw(a)

SellPx(b, a) == IF makerOnly THEN MakerSellPx(a) ELSE Raw(b)

\* Line 248: the ids whose age is at least ttl, in the table's order.
RECURSIVE ExpiredKeys_All(_, _)
ExpiredKeys_All(d, t) ==
    IF d = <<>> THEN <<>> ELSE <<Head(d).k>> \o ExpiredKeys_All(Tail(d), t)

RECURSIVE ExpiredKeys(_, _)
ExpiredKeys(d, t) ==
    IF d = <<>> THEN <<>>
    ELSE IF t - Head(d).v >= TtlSeconds
         THEN <<Head(d).k>> \o ExpiredKeys(Tail(d), t)
         ELSE ExpiredKeys(Tail(d), t)

\* Lines 242-245: record an id if it is valid.
RecordIfValid(d, oid, t) == IF ValidOid(oid) THEN DictSet(d, oid, t) ELSE d

\* Lines 250-258: the table after the cancel of oid returned r: the finally
\* clause pops the id whatever happened.
SweepRemove_OnlyOnOk(d, oid, r) == IF r.ok THEN DictPop(d, oid) ELSE d

SweepRemove(d, oid, r) == DictPop(d, oid)

\* Lines 250-258: where the loop goes after a cancel with `rest` still to
\* cancel: the except clause keeps the sweep going.
SweepNext(r, rest) == IF rest = <<>> THEN "sleep" ELSE "sweep"

\* The order place_limit submits.
Order(side, px, metaOk) ==
    [side |-> side, px |-> px, limit_px |-> LimitPx(px, metaOk),
     sz_dec |-> SzDecimalsForMarket(metaOk),
     px_dec |-> PxDecimals(SzDecimalsForMarket(metaOk))]

\* The classification of a leg's acknowledgement.
Leg(side, res) ==
    [side |-> side, status |-> ExtractStatusAndOid(res).status,
     oid |-> ExtractStatusAndOid(res).oid]

\* Lines 279-281: where the loop stands after an exception other than
\* KeyboardInterrupt left the iteration: in the handler's backoff sleep.
LoopErrorNext_Break == "stopped"

LoopErrorNext == "backoff"

\* Line 211: best_prices reads self.bids (line 90) ...; a level _px cannot
\* read raises, and the exception leaves the iteration.
BestPricesBids ==
    /\ pc = "best_bids"
    /\ IF BestRaises(bids)
       THEN /\ pc' = LoopErrorNext
            /\ UNCHANGED <<bid, bidFrom, bidConn>>
       ELSE /\ bid' = BestOf(bids)
            /\ bidFrom' = bidsFrom
            /\ bidConn' = connected
            /\ pc' = "best_asks"
    /\ UNCHANGED <<cfgVars, feedVars, now, ask, askFrom, oid_b, oid_s, now_l,
                   to_cancel, resting, sent, legs, cancels, selected, stoppedAt, clVars>>

\* ... and then self.asks (line 91).
BestPricesAsks ==
    /\ pc = "best_asks"
    /\ IF BestRaises(asks)
       THEN /\ pc' = LoopErrorNext
            /\ bid' = NoPx
            /\ bidFrom' = 0
            /\ bidConn' = TRUE
            /\ UNCHANGED <<ask, askFrom>>
       ELSE /\ ask' = BestOf(asks)
            /\ askFrom' = asksFrom
            /\ pc' = "gate"
            /\ UNCHANGED <<bid, bidFrom, bidConn>>
    /\ UNCHANGED <<cfgVars, feedVars, now, oid_b, oid_s, now_l,
                   to_cancel, resting, sent, legs, cancels, selected, stoppedAt, clVars>>

\* Lines 212-224: a missing side or a spread below the threshold ends the
\* iteration (sleep, continue); otherwise the loop goes on to quote.
SpreadGate ==
    /\ pc = "gate"
    /\ IF Falsy(bid) \/ Falsy(ask) \/ SpreadBelowMin(bid, ask)
       THEN /\ pc' = "best_bids"
            /\ bid' = NoPx
            /\ ask' = NoPx
            /\ bidFrom' = 0
            /\ bidConn' = TRUE
            /\ askFrom' = 0
       ELSE /\ pc' = "place_buy"
            /\ UNCHANGED readVars
    /\ UNCHANGED <<cfgVars, feedVars, now, oid_b, oid_s, now_l,
                   to_cancel, resting, sent, legs, cancels, selected, stoppedAt, clVars>>

\* Lines 236-237: where the loop goes once the buy leg returned oid: to the
\* sell leg, whatever the buy leg gave.
AfterBuy_SkipSellOnFailure(oid) == IF IsNone(oid) THEN "record" ELSE "place_sell"

AfterBuy(oid) == "place_sell"

\* Line 236: the buy leg.  place_limit queries the metadata, quantizes the
\* price and submits; the acknowledgement is classified.
PlaceBuy ==
    /\ pc = "place_buy"
    /\ \E metaOk \in BOOLEAN, out \in OrderOutcomes :
         /\ sent' = Order("buy", BuyPx(bid, ask), metaOk)
         /\ oid_b' = PlaceLimitUsd(PlaceLimit(out))
         /\ legs' = Append(legs, Leg("buy", PlaceLimit(out)))
    /\ pc' = AfterBuy(oid_b')
    /\ UNCHANGED <<cfgVars, feedVars, now, readVars, oid_s, now_l,
                   to_cancel, resting, cancels, selected, stoppedAt, clVars>>

\* Line 237: the sell leg.
PlaceSell ==
    /\ pc = "place_sell"
    /\ \E metaOk \in BOOLEAN, out \in OrderOutcomes :
         /\ sent' = Order("sell", SellPx(bid, ask), metaOk)
         /\ oid_s' = PlaceLimitUsd(PlaceLimit(out))
         /\ legs' = Append(legs, Leg("sell", PlaceLimit(out)))
    /\ pc' = "record"
    /\ UNCHANGED <<cfgVars, feedVars, now, readVars, oid_b, now_l,
                   to_cancel, resting, cancels, selected, stoppedAt, clVars>>

\* Lines 239-248 (maker-only): take the time, record the valid ids, select
\* the expired ones.  Lines 239, 261 (taker): the two ids to look at.
Record ==
    /\ pc = "record"
    /\ now_l' = now
    /\ sent' = NoOrder
    /\ IF makerOnly
       THEN LET r == RecordIfValid(RecordIfValid(resting, oid_b, now), oid_s, now)
            IN  /\ resting' = r
                /\ to_cancel' = ExpiredKeys(r, now)
                /\ selected' = ExpiredKeys(r, now)
                /\ pc' = IF ExpiredKeys(r, now) = <<>> THEN "sleep" ELSE "sweep"
       ELSE /\ to_cancel' = <<oid_b, oid_s>>
            /\ pc' = "taker_cancel"
            /\ UNCHANGED <<resting, selected>>
    /\ UNCHANGED <<cfgVars, feedVars, now, readVars, oid_b, oid_s,
                   legs, cancels, stoppedAt, clVars>>

\* Lines 249-258: one pass of the sweep's for loop.
Sweep ==
    /\ pc = "sweep"
    /\ to_cancel # <<>>
    /\ LET oid == Head(to_cancel)
       IN  \E out \in CancelOutcomes :
             /\ cancels' = IF ValidOid(oid) /\ CoerceOidForCancel(oid) # PyRaised
                           THEN Append(cancels, [oid |-> CoerceOidForCancel(oid), out |-> out])
                           ELSE cancels
             /\ resting' = SweepRemove(resting, oid, AdapterCancel(out))
             /\ pc' = SweepNext(AdapterCancel(out), Tail(to_cancel))
    /\ to_cancel' = Tail(to_cancel)
    /\ UNCHANGED <<cfgVars, feedVars, now, readVars, oid_b, oid_s, now_l,
                   sent, legs, selected, stoppedAt, clVars>>

\* Lines 261-267: one pass of the taker branch's for loop.
TakerCancel ==
    /\ pc = "taker_cancel"
    /\ to_cancel # <<>>
    /\ LET oid == Head(to_cancel)
       IN  \E out \in CancelOutcomes :
             cancels' = IF ValidOid(oid) /\ CoerceOidForCancel(oid) # PyRaised
                        THEN Append(cancels, [oid |-> CoerceOidForCancel(oid), out |-> out])
                        ELSE cancels
    /\ to_cancel' = Tail(to_cancel)
    /\ pc' = IF Tail(to_cancel) = <<>> THEN "sleep" ELSE "taker_cancel"
    /\ UNCHANGED <<cfgVars, feedVars, now, readVars, oid_b, oid_s, now_l,
                   resting, sent, legs, selected, stoppedAt, clVars>>

\* Line 274: the iteration ends; the locals are dead until assigned again.
Sleep ==
    /\ pc = "sleep"
    /\ pc' = "best_bids"
    /\ bid' = NoPx
    /\ ask' = NoPx
    /\ bidFrom' = 0
    /\ bidConn' = TRUE
    /\ askFrom' = 0
    /\ oid_b' = PyNone
    /\ oid_s' = PyNone
    /\ now_l' = 0
    /\ to_cancel' = <<>>
    /\ legs' = <<>>
    /\ cancels' = <<>>
    /\ selected' = <<>>
    /\ UNCHANGED <<cfgVars, feedVars, now, resting, sent, stoppedAt, clVars>>

\* Lines 279-281: the handler has logged the exception and slept; the while
\* loop starts a new iteration.
Backoff ==
    /\ pc = "backoff"
    /\ pc' = "best_bids"
    /\ UNCHANGED <<cfgVars, feedVars, now, readVars, oid_b, oid_s, now_l,
                   to_cancel, resting, sent, legs, cancels, selected, stoppedAt, clVars>>

\* Lines 276-278: SIGINT raises KeyboardInterrupt in the loop's thread wherever
\* it stands, also inside a gateway call (the adapter catches Exception only);
\* the loop breaks.  Inside the sweep's try block the finally clause still
\* pops the current id.
Interrupt ==
    /\ Running
    /\ pc' = "stopped"
    /\ stoppedAt' = pc
    /\ IF pc = "sweep"
       THEN \E inTry \in BOOLEAN :
              resting' = IF inTry THEN DictPop(resting, Head(to_cancel)) ELSE resting
       ELSE UNCHANGED resting
    /\ UNCHANGED <<cfgVars, feedVars, now, readVars, oid_b, oid_s, now_l,
                   to_cancel, sent, legs, cancels, selected, clVars>>

LoopStep ==
    \/ BestPricesBids
    \/ BestPricesAsks
    \/ SpreadGate
    \/ PlaceBuy
    \/ PlaceSell
    \/ Record
    \/ Sweep
    \/ TakerCancel
    \/ Sleep
    \/ Backoff

Next ==
    \/ \E b \in 1..Len(Books) : OnMessageBids(b)
    \/ OnMessageAsks
    \/ Tick
    \/ LoopStep
    \/ Interrupt

Spec == Init /\ [][Next]_vars

\* ------------------------------------------------- the classifier alone

\* What a marker key may hold: a dict with an id, a dict without one, a bare
\* integer, a bare string.
Payloads ==
    {DictPayload(TRUE, PyInt(55)), DictPayload(TRUE, PyInt(9)),
     DictPayload(FALSE, PyNone), ValPayload(PyInt(4)), ValPayload(PyStr(<<"a", "b">>))}

\* The open markers of a status entry: none, one of the seven, or the first
\* two together.
OpenShapes ==
    {NoOpen}
    \cup {[NoOpen EXCEPT ![k] = p] : k \in 1..Len(OpenKeys), p \in Payloads}
    \cup {[NoOpen EXCEPT ![1] = p, ![2] = q] : p \in Payloads, q \in Payloads}

St0Shapes ==
    {St0Other}
    \cup {St0(e, f, o, oid) : e \in BOOLEAN, f \in Payloads \cup {NoPayload},
                              o \in OpenShapes, oid \in {PyNone, PyInt(3)}}

\* The acknowledgements the classifier is run on.
AckShapes ==
    {AckOther}
    \cup {AckOk(st0) : st0 \in St0Shapes}
    \cup {Ack(st, rs, dt, sk, it) :
            st \in {"ok", "err"}, rs \in {"dict", "absent", "other"},
            dt \in {"dict", "absent", "other"}, sk \in {"absent", "list", "other"},
            it \in {<<>>, <<ErrorAck.items[1]>>, <<RestingAck(DictPayload(TRUE, PyInt(55))).items[1]>>}}

InitClassify ==
    /\ makerOnly = TRUE
    /\ marketSzDec \in SzDecChoices
    /\ bids = <<>>
    /\ asks = <<>>
    /\ bidsFrom = 0
    /\ asksFrom = 0
    /\ wsMsg = 0
    /\ now = 0
    /\ pc = "best_bids"
    /\ bid = NoPx
    /\ ask = NoPx
    /\ bidFrom = 0
    /\ bidConn = TRUE
    /\ askFrom = 0
    /\ oid_b = PyNone
    /\ oid_s = PyNone
    /\ now_l = 0
    /\ to_cancel = <<>>
    /\ resting = <<>>
    /\ sent = NoOrder
    /\ legs = <<>>
    /\ cancels = <<>>
    /\ selected = <<>>
    /\ stoppedAt = "none"
    /\ cl_in \in AckShapes
    /\ cl_out = NotRun
    /\ WsStarted
    /\ FnIdle

\* One call of _extract_status_and_oid.
Classify ==
    /\ cl_out = NotRun
    /\ cl_out' = ExtractStatusAndOid(cl_in)
    /\ UNCHANGED <<cfgVars, feedVars, now, pc, readVars, oid_b, oid_s, now_l, to_cancel,
                   resting, sent, legs, cancels, selected, stoppedAt, cl_in,
                   wsVars, fnVars>>

NextClassify == Classify

SpecClassify == InitClassify /\ [][NextClassify]_vars

\* ------------------------------------------------------ on_message alone

\* What a side of an update may hold in the model.
Sides ==
    {<<>>, <<DictLevel(20)>>, <<ListLevel(100), ListLevel(99)>>, <<BadLevel>>,
     <<DictLevel(20), BadLevel>>}

\* The inbound messages of the model: unparsable, not an object, another
\* channel, no data, data that is no object, no levels, levels that is no
\* list, levels with one, two or three items.
FeedMessages ==
    {Msg("bad", "other", "absent", "absent", <<>>),
     Msg("nondict", "other", "absent", "absent", <<>>),
     Msg("ok", "other", "dict", "list", <<<<DictLevel(20)>>, <<DictLevel(21)>>>>),
     Msg("ok", "l2Book", "absent", "absent", <<>>),
     Msg("ok", "l2Book", "other", "absent", <<>>),
     Msg("ok", "l2Book", "dict", "absent", <<>>),
     Msg("ok", "l2Book", "dict", "other", <<>>),
     Msg("ok", "l2Book", "dict", "list", <<>>),
     Msg("ok", "l2Book", "dict", "list", <<<<DictLevel(20)>>>>)}
    \cup {Msg("ok", "l2Book", "dict", "list", <<b, a>>) : b \in Sides, a \in Sides}
    \cup {Msg("ok", "l2Book", "dict", "list", <<b, <<DictLevel(21)>>, <<>>>>) : b \in Sides}

\* The try block of on_message (lines 42-46): raised says an exception was
\* raised (and caught at line 47), store whether line 46 is reached.
OnMessageTry(m) ==
    IF m.parse # "ok" THEN [raised |-> TRUE, store |-> FALSE]
    ELSE IF m.channel # "l2Book" THEN [raised |-> FALSE, store |-> FALSE]
    ELSE IF m.data = "other" THEN [raised |-> TRUE, store |-> FALSE]
    ELSE IF m.data = "absent" \/ m.lk # "list" \/ Len(m.sides) < 2
         THEN [raised |-> FALSE, store |-> FALSE]
    ELSE [raised |-> FALSE, store |-> TRUE]

InitOnMessage ==
    /\ LoopIdle
    /\ cl_in = AckOther
    /\ cl_out = NotRun
    /\ WsStarted
    /\ FnIdle

\* OrderBookWS.on_message on one message.
OnMessage(m) ==
    /\ fd_msg' = m
    /\ IF OnMessageTry(m).store
       THEN /\ bids' = m.sides[1]
            /\ asks' = m.sides[2]
       ELSE UNCHANGED <<bids, asks>>
    /\ UNCHANGED <<cfgVars, bidsFrom, asksFrom, wsMsg, now, pc, readVars, oid_b, oid_s,
                   now_l, to_cancel, resting, sent, legs, cancels, selected, stoppedAt,
                   cl_in, cl_out, wsVars, q_in, q_out, co_in, co_out,
                   webVars, logVars>>

NextOnMessage == \E m \in FeedMessages : OnMessage(m)

SpecOnMessage == InitOnMessage /\ [][NextOnMessage]_vars

\* ------------------------------------------------ the quantization alone

\* Units.  For a market with sizeDecimals d the size step is 10^-d and the
\* price tick 10^-(8 - d).  A raw size szT is in tenths of a step and a raw
\* price pT in tenths of a tick; a quantized size is in steps and a quantized
\* price in ticks.  The notional of k steps at P ticks is k * P * 10^-8 for
\* every d, so the floor of 10 is k * P >= NotionalFloor.
NotionalFloor == 1000000000

\* math.floor(sz / step_sz) at line 192 is computed in binary floating point:
\* for these multiples k of the step (by sizeDecimals) the quotient of the
\* double nearest k * 10^-d by the double 10 ** (-d) falls below k, and the
\* floor is k - 1.  (k up to 41, sizeDecimals 1 to 8.)
FloorLossy ==
    << {3, 6, 7, 12, 14, 19, 23, 24, 28, 29, 33, 38, 41}, {29}, {},
       {3, 6, 12, 13, 21, 24, 26, 29, 31, 39},
       {7, 13, 14, 15, 26, 27, 28, 29, 30, 31, 37, 39, 41}, {}, {},
       {3, 6, 12, 15, 24, 29, 30} >>

\* math.ceil(size_needed / step_sz) at line 199, in binary floating point:
\* for these (sizeDecimals, price in ticks) the quotient of an exact division
\* comes out above the integer, and the ceiling is one more.
CeilOver == {<<6, 25000000>>, <<6, 40000000>>, <<6, 100000000>>, <<7, 40000000>>}

\* math.floor(sz / step_sz), in steps.
FloorSteps(d, szT) ==
    IF d > 0 /\ szT % 10 = 0 /\ (szT \div 10) \in FloorLossy[d]
    THEN szT \div 10 - 1
    ELSE szT \div 10

\* Line 192: size_q = max(step_sz, floor(sz / step_sz) * step_sz), in steps.
SizeQ(d, szT) == Max(1, FloorSteps(d, szT))

\* Line 193: limit_px, in ticks (the digit after the tick is rounded away).
LimitTicks(pT) == FormatFixed(pT, 8) \div 10

\* The smallest number of steps whose notional at P ticks is at least 10.
MinSteps(P) == (NotionalFloor + P - 1) \div P

\* Lines 197-199: mult = ceil(size_needed / step_sz), for P > 0.
Mult(d, P) == IF <<d, P>> \in CeilOver THEN MinSteps(P) + 1 ELSE MinSteps(P)

\* Lines 186-203: the size (steps) and price (ticks) place_limit submits.
Quantize(d, szT, pT) ==
    LET k == SizeQ(d, szT)
        P == LimitTicks(pT)
    IN  [size |-> IF k < MinSteps(P) THEN Mult(d, P) ELSE k, px |-> P]

\* The prices of the model, in ticks, and the digit that follows them.
QuantTicks == {25000000, 40000000, 100000000, 33333334}

QuantInputs ==
    {[d |-> d, szT |-> z, pT |-> 10 * P + r] :
        d \in 0..8, z \in {0, 4, 30, 35, 70, 235, 290, 295, 400},
        P \in QuantTicks, r \in {0, 3, -4}}

InitQuant ==
    /\ LoopIdle
    /\ cl_in = AckOther
    /\ cl_out = NotRun
    /\ WsStarted
    /\ fd_msg = NoMsg
    /\ co_in = PyNone
    /\ co_out = CoNotRun
    /\ WebIdle
    /\ LogsIdle
    /\ q_in \in QuantInputs
    /\ q_out = QNotRun

\* place_limit's quantization applied to the input, then to its own output.
QuantizeStep ==
    /\ q_out.n < 2
    /\ LET r == IF q_out.n = 0
                THEN Quantize(q_in.d, q_in.szT, q_in.pT)
                ELSE Quantize(q_in.d, 10 * q_out.size, 10 * q_out.px)
       IN  q_out' = [n |-> q_out.n + 1, size |-> r.size, px |-> r.px,
                     size1 |-> q_out.size, px1 |-> q_out.px]
    /\ UNCHANGED <<cfgVars, feedVars, now, loopVars, cl_in, cl_out, wsVars, fd_msg,
                   q_in, co_in, co_out, webVars, logVars>>

NextQuant == QuantizeStep

SpecQuant == InitQuant /\ [][NextQuant]_vars

\* ------------------------------------------------ the id coercion alone

\* Longest id string tried.
MaxIdLen == 3

IdChars == {"0", "1", " ", "a", SuperscriptTwo}

IdStrings == UNION {[1..n -> IdChars] : n \in 0..MaxIdLen}

\* The ids handed to _coerce_oid_for_cancel: ints, strings, another value.
CoerceInputs ==
    {PyInt(k) : k \in -1..2} \cup {PyStr(cs) : cs \in IdStrings} \cup {PyOther}

InitCoerce ==
    /\ LoopIdle
    /\ cl_in = AckOther
    /\ cl_out = NotRun
    /\ WsStarted
    /\ fd_msg = NoMsg
    /\ q_in = QNoInput
    /\ q_out = QNotRun
    /\ WebIdle
    /\ LogsIdle
    /\ co_in \in CoerceInputs
    /\ co_out = CoNotRun

\* _coerce_oid_for_cancel applied to the id, then to what it returned.
CoerceStep ==
    /\ co_out.n < 2
    /\ co_out.v # PyRaised
    /\ co_out' = [n |-> co_out.n + 1,
                  v |-> CoerceOidForCancel(IF co_out.n = 0 THEN co_in ELSE co_out.v),
                  v1 |-> co_out.v]
    /\ UNCHANGED <<cfgVars, feedVars, now, loopVars, cl_in, cl_out, wsVars, fd_msg,
                   q_in, q_out, co_in, webVars, logVars>>

NextCoerce == CoerceStep

SpecCoerce == InitCoerce /\ [][NextCoerce]_vars

\* ------------------------------------------- the feed's connection alone

\* for _ in range(60): the polls of self.connected start makes.
StartPolls == 60

\* After line 66: the feed thread has been started and is connecting; start
\* begins to poll.
InitFeed ==
    /\ LoopIdle
    /\ cl_in = AckOther
    /\ cl_out = NotRun
    /\ FnIdle
    /\ connected = FALSE
    /\ ws_state = "connecting"
    /\ subs = 0
    /\ start_pc = "polling"
    /\ polls = 0

\* OrderBookWS.on_open: the connection is open; the flag is set and one
\* subscribe message is sent (_subscribe).
WsOpen ==
    /\ ws_state = "connecting"
    /\ ws_state' = "open"
    /\ connected' = TRUE
    /\ subs' = subs + 1
    /\ UNCHANGED <<cfgVars, feedVars, now, loopVars, cl_in, cl_out, start_pc, polls, fnVars>>

\* The connection attempt fails: on_error, then on_close; run_forever (line
\* 65, called once, without a reconnect interval) returns and the thread ends.
WsConnectFail ==
    /\ ws_state = "connecting"
    /\ ws_state' = "ended"
    /\ connected' = FALSE
    /\ UNCHANGED <<cfgVars, feedVars, now, loopVars, cl_in, cl_out, subs, start_pc, polls,
                   fnVars>>

\* The open connection is lost: on_error and/or on_close clear the flag;
\* run_forever returns and the thread ends.
WsClose ==
    /\ ws_state = "open"
    /\ wsMsg = 0
    /\ ws_state' = "ended"
    /\ connected' = FALSE
    /\ UNCHANGED <<cfgVars, feedVars, now, loopVars, cl_in, cl_out, subs, start_pc, polls,
                   fnVars>>

\* An l2Book update arrives on the open connection.
FeedUpdate ==
    /\ ws_state = "open"
    /\ \/ \E b \in 1..Len(Books) : OnMessageBids(b)
       \/ OnMessageAsks

\* OrderBookWS.start, lines 68-73: one pass of the polling loop.
StartPoll ==
    /\ start_pc = "polling"
    /\ IF connected
       THEN /\ start_pc' = "returned"
            /\ UNCHANGED polls
       ELSE /\ polls' = polls + 1
            /\ start_pc' = IF polls + 1 = StartPolls THEN "failed" ELSE "polling"
    /\ UNCHANGED <<cfgVars, feedVars, now, loopVars, cl_in, cl_out, connected, ws_state,
                   subs, fnVars>>

FeedThread == WsOpen \/ WsConnectFail \/ WsClose \/ FeedUpdate

NextFeed == FeedThread \/ StartPoll

SpecFeed == InitFeed /\ [][NextFeed]_vars

\* The connection attempt comes to an end and start keeps polling; the
\* exchange owes no update and the connection need not be lost.
FairSpecFeed ==
    InitFeed /\ [][NextFeed]_vars /\ WF_vars(WsOpen \/ WsConnectFail) /\ WF_vars(StartPoll)

\* ------------------------------------------------- the web shim's log

\* webui/app.py line 60.
MAX_LOGS == 4000

\* A line of text: <<k, nl>> is the text numbered k followed by nl newlines.
\* line.rstrip("\n"), line 64.
RStripNl(line) == <<line[1], 0>>

\* seq[i:] of Python, i counted from 0; a negative i counts from the end.
PySliceFrom(seq, i) ==
    LET start == IF i < 0 THEN Max(0, Len(seq) + i) ELSE Min(i, Len(seq))
    IN  SubSeq(seq, start + 1, Len(seq))

\* _append_log, lines 62-70: the buffer and the counter after the call.
AppendLog(buf, next, line) ==
    LET l1 == Append(buf, RStripNl(line))
        excess == Len(l1) - MAX_LOGS
    IN  [LOGS |-> IF Len(l1) > MAX_LOGS THEN PySliceFrom(l1, excess) ELSE l1,
         LOG_NEXT |-> next + 1]

\* logs(since), lines 208-214.
Logs(since) ==
    LET start == Max(0, since)
    IN  [next |-> LOG_NEXT,
         lines |-> IF start < LOG_NEXT
                   THEN PySliceFrom(LOGS, start - (LOG_NEXT - Len(LOGS)))
                   ELSE <<>>]

\* Appends tried from each starting buffer.
MaxAppends == 4

\* The buffer after `n` calls of _append_log that did not yet fill it.
Filled(n) == [i \in 1..n |-> <<i - 1, 0>>]

LogStarts == {0, MAX_LOGS - 2}

LogSinces ==
    {-1, 0, 1, 2, 3, MAX_LOGS - 3, MAX_LOGS - 1, MAX_LOGS, MAX_LOGS + 1,
     MAX_LOGS + 2, MAX_LOGS + 5}

InitLogs ==
    /\ LoopIdle
    /\ cl_in = AckOther
    /\ cl_out = NotRun
    /\ WsStarted
    /\ fd_msg = NoMsg
    /\ q_in = QNoInput
    /\ q_out = QNotRun
    /\ co_in = PyNone
    /\ co_out = CoNotRun
    /\ WebIdle
    /\ \E n \in LogStarts :
         /\ LOGS = Filled(n)
         /\ LOG_NEXT = n
         /\ log_calls = n
    /\ lg_out = LogsNotRun

\* One call of _append_log; the line is the text numbered by the call.
AppendLogStep ==
    /\ \E n \in LogStarts : n <= log_calls /\ log_calls < n + MaxAppends
    /\ \E nl \in {0, 1} :
         LET r == AppendLog(LOGS, LOG_NEXT, <<log_calls, nl>>)
         IN  /\ LOGS' = r.LOGS
             /\ LOG_NEXT' = r.LOG_NEXT
    /\ log_calls' = log_calls + 1
    /\ UNCHANGED <<cfgVars, feedVars, now, loopVars, cl_in, cl_out, wsVars, fd_msg,
                   q_in, q_out, co_in, co_out, webVars, lg_out>>

\* One /logs request.
LogsStep ==
    /\ \E since \in LogSinces :
         lg_out' = [n |-> 1, since |-> since, next |-> Logs(since).next,
                    lines |-> Logs(since).lines, at |-> log_calls]
    /\ UNCHANGED <<cfgVars, feedVars, now, loopVars, cl_in, cl_out, wsVars, fd_msg,
                   q_in, q_out, co_in, co_out, webVars, LOGS, LOG_NEXT, log_calls>>

NextLogs == AppendLogStep \/ LogsStep

SpecLogs == InitLogs /\ [][NextLogs]_vars

\* ------------------------------------------ the web shim's process control

\* Requests the shim answers in one run of the model.
MaxRequests == 4

\* What /start may carry: whether the numeric fields convert (float(...)),
\* and the agent key: well-formed, empty, without the 0x prefix, or of the
\* wrong length.
StartPayloads ==
    {[numbers_ok |-> b, agent_pk |-> a] :
        b \in BOOLEAN, a \in {"valid", "empty", "no0x", "short"}}

\* BOT_LOCK = threading.Lock(), line 56: acquire succeeds only on a free
\* lock, also for the thread that holds it.
Acquirable(lock, who) == lock = "free"

\* is_running, lines 91-93, called by `who` when the lock is `lock`: blocked
\* in `with BOT_LOCK`, or the answer.
IsRunning(lock, who, proc, alive) ==
    IF Acquirable(lock, who)
    THEN [blocked |-> FALSE, v |-> proc # 0 /\ proc \in alive]
    ELSE [blocked |-> TRUE, v |-> FALSE]

Response(req, ok, err) == [req |-> req, ok |-> ok, err |-> err]

\* The handlers are `async def`: the event loop's thread runs one at a time.
\* A request arrives and its handler is entered.
StartRequest ==
    /\ web_pc = "idle"
    /\ Len(web_log) < MaxRequests
    /\ web_pc' = "start"
    /\ \E p \in StartPayloads : web_req' = p
    /\ UNCHANGED <<cfgVars, feedVars, now, loopVars, cl_in, cl_out, wsVars, fd_msg,
                   q_in, q_out, co_in, co_out, BOT_PROC, BOT_LOCK, web_log, procs,
                   launched, signals, logVars>>

StopRequest ==
    /\ web_pc = "idle"
    /\ Len(web_log) < MaxRequests
    /\ web_pc' = "stop"
    /\ UNCHANGED <<cfgVars, feedVars, now, loopVars, cl_in, cl_out, wsVars, fd_msg,
                   q_in, q_out, co_in, co_out, BOT_PROC, BOT_LOCK, web_req, web_log,
                   procs, launched, signals, logVars>>

StatusRequest ==
    /\ web_pc = "idle"
    /\ Len(web_log) < MaxRequests
    /\ web_pc' = "status"
    /\ UNCHANGED <<cfgVars, feedVars, now, loopVars, cl_in, cl_out, wsVars, fd_msg,
                   q_in, q_out, co_in, co_out, BOT_PROC, BOT_LOCK, web_req, web_log,
                   procs, launched, signals, logVars>>

\* start, lines 220-226, and start_bot_subprocess, lines 95-154: the lock is
\* taken (line 101), is_running is called with the lock held (line 102);
\* then the bot is launched, or the exception raised is logged and answered
\* with an error.  The bot may have exited by itself before poll() looks.
StartBotSubprocess ==
    /\ web_pc = "start"
    /\ Acquirable(BOT_LOCK, "start")
    /\ \E exited \in BOOLEAN :
         LET alive == IF exited THEN procs \ {BOT_PROC} ELSE procs
             r == IsRunning("start", "start", BOT_PROC, alive)
             err == IF r.v THEN "running"
                    ELSE IF ~web_req.numbers_ok THEN "value"
                    ELSE IF web_req.agent_pk # "valid" THEN "agent_key"
                    ELSE "none"
             lg == AppendLog(LOGS, LOG_NEXT, <<log_calls, 0>>)
         IN  IF r.blocked
             THEN /\ web_pc' = "blocked"
                  /\ BOT_LOCK' = "start"
                  /\ procs' = alive
                  /\ UNCHANGED <<BOT_PROC, web_req, web_log, launched, LOGS, LOG_NEXT,
                                 log_calls>>
             ELSE /\ web_pc' = "idle"
                  /\ BOT_LOCK' = "free"
                  /\ web_req' = NoStartPayload
                  /\ web_log' = Append(web_log, Response("start", err = "none", err))
                  /\ LOGS' = lg.LOGS
                  /\ LOG_NEXT' = lg.LOG_NEXT
                  /\ log_calls' = log_calls + 1
                  /\ IF err = "none"
                     THEN /\ BOT_PROC' = launched + 1
                          /\ procs' = alive \cup {launched + 1}
                          /\ launched' = launched + 1
                     ELSE /\ procs' = alive
                          /\ UNCHANGED <<BOT_PROC, launched>>
    /\ UNCHANGED <<cfgVars, feedVars, now, loopVars, cl_in, cl_out, wsVars, fd_msg,
                   q_in, q_out, co_in, co_out, signals, lg_out>>

\* The signals stop_bot_subprocess has sent when the process ended at `how`:
\* it had exited already (line 161), or ended within the wait after SIGINT
\* (lines 167-177), after SIGTERM (lines 181-190), or was sent SIGKILL (194).
SignalsSent(how) ==
    IF how = "exited" THEN <<>>
    ELSE IF how = "sigint" THEN <<"SIGINT">>
    ELSE IF how = "sigterm" THEN <<"SIGINT", "SIGTERM">>
    ELSE <<"SIGINT", "SIGTERM", "SIGKILL">>

\* stop, lines 229-235, and stop_bot_subprocess, lines 156-198.
StopBotSubprocess ==
    /\ web_pc = "stop"
    /\ Acquirable(BOT_LOCK, "stop")
    /\ IF BOT_PROC = 0
       THEN /\ web_log' = Append(web_log, Response("stop", FALSE, "none"))
            /\ UNCHANGED <<BOT_PROC, procs, signals>>
       ELSE /\ \E how \in IF BOT_PROC \in procs
                            THEN {"exited", "sigint", "sigterm", "sigkill"}
                            ELSE {"exited"} :
                 signals' = SignalsSent(how)
            /\ procs' = procs \ {BOT_PROC}
            /\ BOT_PROC' = 0
            /\ web_log' = Append(web_log, Response("stop", TRUE, "none"))
    /\ web_pc' = "idle"
    /\ UNCHANGED <<cfgVars, feedVars, now, loopVars, cl_in, cl_out, wsVars, fd_msg,
                   q_in, q_out, co_in, co_out, BOT_LOCK, web_req, launched, logVars>>

\* status, lines 204-205.
Status ==
    /\ web_pc = "status"
    /\ \E exited \in BOOLEAN :
         LET alive == IF exited THEN procs \ {BOT_PROC} ELSE procs
             r == IsRunning(BOT_LOCK, "status", BOT_PROC, alive)
         IN  /\ procs' = alive
             /\ IF r.blocked
                THEN /\ web_pc' = "blocked"
                     /\ UNCHANGED web_log
                ELSE /\ web_pc' = "idle"
                     /\ web_log' = Append(web_log, Response("status", r.v, "none"))
    /\ UNCHANGED <<cfgVars, feedVars, now, loopVars, cl_in, cl_out, wsVars, fd_msg,
                   q_in, q_out, co_in, co_out, BOT_PROC, BOT_LOCK, web_req, launched,
                   signals, logVars>>

InitWeb ==
    /\ LoopIdle
    /\ cl_in = AckOther
    /\ cl_out = NotRun
    /\ WsStarted
    /\ FnIdle

WebRequest == StartRequest \/ StopRequest \/ StatusRequest

WebHandler == StartBotSubprocess \/ StopBotSubprocess \/ Status

NextWeb == WebRequest \/ WebHandler

SpecWeb == InitWeb /\ [][NextWeb]_vars

\* The event loop's thread keeps running the handler it has entered; the
\* clients owe no request.
FairSpecWeb == InitWeb /\ [][NextWeb]_vars /\ WF_vars(WebHandler)

\* ------------------------------------- the loop beside a feed that can end

\* main() has started the feed (the connection is open) and enters the
\* loop: Init.  The loop runs; updates arrive while the connection is open; the connection
\* can be lost, and then the feed thread has ended.
NextLoss ==
    \/ FeedUpdate
    \/ WsClose
    \/ Tick
    \/ LoopStep
    \/ Interrupt

SpecLoss == Init /\ [][NextLoss]_vars

\* The specification under which the liveness of the TTL sweep is checked:
\* the loop's thread keeps running and time keeps passing; the feed and the
\* stop signal are the environment's and owe nothing.
FairSpec == Init /\ [][Next]_vars /\ WF_vars(LoopStep) /\ WF_vars(Tick)

\* ================================================================ claims

\* isValidId as the specification words it: a positive integer, or a string
\* that is non-empty after trimming and is not "filled" in any case.
IsValidId(id) ==
    \/ id.t = "int" /\ id.n > 0
    \/ id.t = "str" /\ Strip(id.s) # <<>> /\ Lower(Strip(id.s)) # <<"f", "i", "l", "l", "e", "d">>

Age(k) == now - DictGet(resting, k)

\* The order the liveness of the sweep is followed for: the gateway's id 1.
TrackedOid == PyInt(1)

\* C1: in maker-only mode an id in the resting table whose age has reached
\* ttlSeconds is eventually cancelled and removed, whatever snapshots follow,
\* unless the loop is stopped.  Stated for the order with id 1.
C1_ExpiredEventuallyRemoved ==
    (makerOnly /\ TrackedOid \in DictKeys(resting) /\ Age(TrackedOid) >= TtlSeconds)
        ~> (TrackedOid \notin DictKeys(resting) \/ pc = "stopped")

\* C2: an entry of the resting table is removed only by the TTL sweep and only
\* when its age is at least ttlSeconds, and the sweep selects exactly the
\* entries whose age is at least ttlSeconds.
C2_RemovedOnlyWhenExpired ==
    [][ /\ \A k \in DictKeys(resting) \ DictKeys(resting') :
              pc = "sweep" /\ Age(k) >= TtlSeconds
        /\ (pc = "record" /\ pc' \in {"sweep", "sleep"})
              => \A k \in DictKeys(resting') :
                    (\E i \in 1..Len(selected') : selected'[i] = k)
                        <=> now' - DictGet(resting', k) >= TtlSeconds
      ]_vars

\* C2 witness: a sweep has cancelled an expired id and left in the table an
\* entry one tick short of ttlSeconds.
C2_Witness ==
    /\ makerOnly
    /\ pc = "sleep"
    /\ cancels # <<>>
    /\ \E k \in DictKeys(resting) : now_l - DictGet(resting, k) = TtlSeconds - 1

\* C3: every id the sweep has gone through is absent from the table and had
\* its cancel attempted, whatever the earlier cancels returned (ok, error,
\* exception); the sweep goes on to the remaining ids.
C3_SweepRemovesWhateverTheOutcome ==
    (makerOnly /\ pc \in {"sweep", "sleep"}) =>
        LET done == Len(selected) - Len(to_cancel)
        IN  /\ done >= 0
            /\ \A i \in 1..done : selected[i] \notin DictKeys(resting)
            /\ Len(cancels) = done
            /\ \A i \in 1..done : cancels[i].oid = CoerceOidForCancel(selected[i])
            /\ pc = "sleep" => done = Len(selected)

\* C3 witness: a sweep of two ids ended, the first cancel raised and the
\* second returned an error.
C3_Witness ==
    /\ makerOnly
    /\ pc = "sleep"
    /\ Len(selected) = 2
    /\ Len(cancels) = 2
    /\ cancels[1].out = "raise"
    /\ cancels[2].out = "error"
    /\ DictKeys(resting) \cap {selected[1], selected[2]} = {}

\* C4: the (bid, ask) pair the loop gets from best_prices never joins the bid
\* side of one update with the ask side of another.
C4_PairFromOneUpdate ==
    (pc = "gate" /\ bidFrom # 0 /\ askFrom # 0) => bidFrom = askFrom

C6_MakerNeverCrosses ==
    (makerOnly /\ bid # NoPx /\ bid < ask) =>
        /\ sent.side = "buy" => sent.limit_px < Raw(ask)
        /\ sent.side = "sell" => sent.limit_px > Raw(bid)

\* The ids of the legs of this iteration classified Resting with a valid id.
RestingIds == {legs[i].oid : i \in {j \in 1..Len(legs) :
                                       legs[j].status = "resting" /\ IsValidId(legs[j].oid)}}

\* C7: in maker-only mode the recording step adds to the table exactly the
\* ids of this iteration's placements classified Resting with a valid id,
\* stamped with the time taken in this iteration; no other step adds or
\* restamps an entry, and every key of the table is a valid id.
C7_TableHoldsValidRestingIds ==
    [][ /\ \A k \in DictKeys(resting') : IsValidId(k)
        /\ (pc = "record" /\ pc' \in {"sweep", "sleep"})
              => /\ DictKeys(resting') = DictKeys(resting) \cup RestingIds
                 /\ \A k \in RestingIds : DictGet(resting', k) = now_l'
                 /\ \A k \in DictKeys(resting) \ RestingIds :
                       DictGet(resting', k) = DictGet(resting, k)
        /\ ~(pc = "record" /\ pc' \in {"sweep", "sleep"})
              => /\ DictKeys(resting') \subseteq DictKeys(resting)
                 /\ \A k \in DictKeys(resting') : DictGet(resting', k) = DictGet(resting, k)
      ]_vars

\* C7 witness: an iteration whose buy leg was Filled and whose sell leg was
\* Resting with a valid id has recorded the sell id, next to an older entry.
C7_Witness ==
    /\ makerOnly
    /\ pc = "sleep"
    /\ Len(legs) = 2
    /\ legs[1].status = "filled"
    /\ legs[2].status = "resting"
    /\ legs[2].oid \in DictKeys(resting)
    /\ DictGet(resting, legs[2].oid) = now_l
    /\ \E k \in DictKeys(resting) : DictGet(resting, k) < now_l

\* The coerced ids of the legs classified Resting with a valid id, in order.
RECURSIVE RestingCoerced(_)
RestingCoerced(ls) ==
    IF ls = <<>> THEN <<>>
    ELSE IF Head(ls).status = "resting" /\ IsValidId(Head(ls).oid)
         THEN <<CoerceOidForCancel(Head(ls).oid)>> \o RestingCoerced(Tail(ls))
         ELSE RestingCoerced(Tail(ls))

\* C8: in taker mode the buy leg is priced at the best ask and the sell leg at
\* the best bid, the resting table is always empty, and an iteration cancels
\* exactly the (coerced) ids of its placements classified Resting with a valid
\* id; a Filled placement triggers no cancel.
C8_TakerCancelsAtOnce ==
    ~makerOnly =>
        /\ resting = <<>>
        /\ sent.side = "buy" => sent.px = Raw(ask)
        /\ sent.side = "sell" => sent.px = Raw(bid)
        /\ pc = "sleep" => [i \in 1..Len(cancels) |-> cancels[i].oid] = RestingCoerced(legs)

\* C8 witness: a taker iteration ended with a Filled buy leg, a sell leg
\* Resting under the id "7", and the one cancel of 7.
C8_Witness ==
    /\ ~makerOnly
    /\ pc = "sleep"
    /\ Len(legs) = 2
    /\ legs[1].status = "filled"
    /\ legs[2].status = "resting"
    /\ legs[2].oid = PyStr(<<"7">>)
    /\ Len(cancels) = 1
    /\ cancels[1].oid = PyInt(7)

\* The id a marker's payload yields by the specification's rule: a nested id
\* field or a bare scalar, else the sibling top-level id.
TableId(payload, top) ==
    IF payload.p = "dict" /\ payload.hasoid THEN payload.v
    ELSE IF payload.p = "val" /\ payload.v.t \in {"int", "str"} THEN payload.v
    ELSE top

\* The open markers present in a status entry, in the fixed order.
OpenPresent(st0) == {i \in 1..Len(OpenKeys) : st0.open[i].p # "absent"}

\* The seven-rule decision table of the specification, in order.
Table(res) ==
    IF res.kind # "dict" \/ res.status # "ok" THEN <<"error", PyNone>>
    ELSE IF res.response # "dict" \/ res.data # "dict" \/ res.skind # "list"
            \/ res.items = <<>>
         THEN <<"error", PyNone>>
    ELSE LET st0 == res.items[1]
             ids == {i \in OpenPresent(st0) : ~IsNone(TableId(st0.open[i], st0.oid))}
         IN  IF st0.kind # "dict" THEN <<"error", PyNone>>
             ELSE IF st0.error THEN <<"error", PyNone>>
             ELSE IF st0.filled.p # "absent"
                  THEN <<"filled", TableId(st0.filled, st0.oid)>>
             ELSE IF OpenPresent(st0) # {}
                  THEN IF ids # {}
                       THEN <<"resting",
                              TableId(st0.open[CHOOSE i \in ids : \A j \in ids : i <= j],
                                      st0.oid)>>
                       ELSE <<"error", PyNone>>
             ELSE IF ~IsNone(st0.oid) THEN <<"resting", st0.oid>>
             ELSE <<"error", PyNone>>

C10_StopsOnlyAfterIteration ==
    (pc = "stopped" /\ stoppedAt \notin {"best_bids", "best_asks", "gate", "backoff"}) =>
        /\ Len(legs) = 2
        /\ \A k \in RestingIds :
              IF makerOnly
              THEN k \in DictKeys(resting) \/ \E i \in 1..Len(selected) : selected[i] = k
              ELSE \E i \in 1..Len(cancels) : cancels[i].oid = CoerceOidForCancel(k)
        /\ to_cancel = <<>>
        /\ stoppedAt = "sleep"

\* C11: the loop stops only on the stop signal; an exception raised inside
\* an iteration (here by best_prices on a snapshot it cannot read) takes the
\* loop to the handler's backoff with the resting table as it was, and from
\* the backoff a new iteration starts.
C11_ExceptionKeepsLooping ==
    [][ /\ (pc' = "stopped" /\ pc # "stopped") => stoppedAt' = pc
        /\ (pc # "backoff" /\ pc' = "backoff")
              => (pc \in {"best_bids", "best_asks"} /\ resting' = resting)
        /\ (pc = "backoff" /\ pc' # "backoff")
              => (pc' \in {"best_bids", "stopped"} /\ resting' = resting)
      ]_vars

\* C11 witness: an exception was raised while the table holds an entry.
C11_Witness ==
    /\ pc = "backoff"
    /\ makerOnly
    /\ resting # <<>>
    /\ BestRaises(bids) \/ BestRaises(asks)

\* A side all of whose levels are in tagged-field or positional form.
WellFormedSide(side) == \A i \in DOMAIN side : side[i].form \in {"dict", "list"}

\* An l2Book update carrying a well-formed bid side and ask side.
WellFormedUpdate(m) ==
    /\ m.parse = "ok"
    /\ m.channel = "l2Book"
    /\ m.data = "dict"
    /\ m.lk = "list"
    /\ Len(m.sides) >= 2
    /\ WellFormedSide(m.sides[1])
    /\ WellFormedSide(m.sides[2])

\* C12: a message that is no well-formed update leaves the stored snapshot
\* as it was, and best_prices never raises on the stored snapshot.
C12_MalformedDiscarded ==
    [][ fd_msg' # fd_msg =>
            /\ ~WellFormedUpdate(fd_msg') => (bids' = bids /\ asks' = asks)
            /\ ~BestRaises(bids')
            /\ ~BestRaises(asks')
      ]_vars

\* C13: after a connection loss the flag is false and the feed eventually
\* re-opens the connection; a subscribe message is sent exactly on a
\* connection open, one per open.
C13_ReconnectsAndResubscribes ==
    /\ [](ws_state = "ended" => ~connected)
    /\ [][(subs' # subs \/ (ws_state # "open" /\ ws_state' = "open"))
             => (ws_state # "open" /\ ws_state' = "open" /\ subs' = subs + 1)]_vars
    /\ (ws_state = "ended") ~> (ws_state = "open" /\ connected)

\* C14: start returns only once a snapshot is stored, and fails only after
\* its 60 polls.
C14_StartWaitsForSnapshot ==
    /\ start_pc = "returned" => (bidsFrom # 0 /\ asksFrom # 0)
    /\ start_pc = "failed" => polls = StartPolls

\* C15: an iteration that passed the gate submits one buy and then one sell:
\* the sell is submitted when the buy's acknowledgement has been classified,
\* whatever it was; no leg is submitted twice; before the gate has passed
\* nothing is submitted.
C15_OneBuyThenOneSell ==
    /\ Len(legs) <= 2
    /\ Len(legs) >= 1 => legs[1].side = "buy"
    /\ Len(legs) = 2 => legs[2].side = "sell"
    /\ pc \in {"best_bids", "best_asks", "gate", "place_buy", "backoff"} => legs = <<>>
    /\ pc = "place_sell" => (Len(legs) = 1 /\ sent.side = "buy")
    /\ pc = "record" => (Len(legs) = 2 /\ sent.side = "sell")
    /\ pc \in {"sweep", "taker_cancel", "sleep"} => Len(legs) = 2

\* C15 witness: the buy leg was classified Error and the sell leg was
\* submitted after it and is resting.
C15_Witness ==
    /\ pc = "record"
    /\ Len(legs) = 2
    /\ legs[1].status = "error"
    /\ legs[2].status = "resting"

\* C16: the price place_limit submits is on the grid of priceDecimals and is
\* at most the raw price it was given (truncation, never rounding up).
C16_PriceTruncated ==
    sent # NoOrder =>
        /\ \E d \in SzDecChoices \cup {DefaultSzDecimals} :
              sent.limit_px % Pow10(9 - PxDecimals(d)) = 0
        /\ sent.limit_px <= sent.px

\* The input of the last application of the quantization.
LastIn ==
    IF q_out.n = 1 THEN q_in
    ELSE [d |-> q_in.d, szT |-> 10 * q_out.size1, pT |-> 10 * q_out.px1]

\* C17: the notional of a quantized output is at least 10, and
\* when the truncated size gave less, the size is the smallest number of
\* steps that gives at least 10.
C17_NotionalFloorSmallest ==
    (q_out.n >= 1 /\ q_out.px > 0) =>
        /\ q_out.size >= MinSteps(q_out.px)
        /\ SizeQ(LastIn.d, LastIn.szT) < MinSteps(q_out.px)
              => q_out.size = MinSteps(q_out.px)

\* C18: the size is at least one step and is the raw size floored
\* to whole steps (one step when that is zero), unless the notional rule
\* replaced it by more steps.
C18_SizeIsFlooredRaw ==
    q_out.n >= 1 =>
        LET f == Max(1, LastIn.szT \div 10)
        IN  /\ q_out.size >= 1
            /\ \/ q_out.size = f
               \/ f < MinSteps(q_out.px) /\ q_out.size > f

\* C19: quantizing a quantized (size, price) again gives the same pair.
C19_QuantizeIdempotent ==
    q_out.n = 2 => (q_out.size = q_out.size1 /\ q_out.px = q_out.px1)

\* A string consisting only of decimal digits.
OnlyDigits(cs) == cs # <<>> /\ \A i \in 1..Len(cs) : cs[i] \in Digits

\* The ids the loop may be cancelling: the ones the sweep selected and the
\* two the placements returned.
CancelCandidates == {selected[i] : i \in 1..Len(selected)} \cup {oid_b, oid_s}

\* Every cancel the loop has issued was called with the coercion of a valid id.
CancelIdsCoercedValid ==
    \A i \in 1..Len(cancels) :
        \E x \in CancelCandidates : ValidOid(x) /\ cancels[i].oid = CoerceOidForCancel(x)

\* C20: _coerce_oid_for_cancel gives the integer a string of digits denotes,
\* gives every other value back unchanged, and applied to its own result
\* gives that result; every cancel of the loop is called with the coercion
\* of a valid id.
C20_CoerceAndCancelIds ==
    /\ co_out.n = 1 =>
          IF co_in.t = "str" /\ OnlyDigits(co_in.s)
          THEN co_out.v = PyInt(ParseInt(co_in.s))
          ELSE co_out.v = co_in
    /\ co_out.n = 2 => co_out.v = co_out.v1
    /\ CancelIdsCoercedValid

\* C21: no order is placed in an iteration that read its prices after the
\* feed's connection was lost (the stored snapshot is then from before the
\* loss; the code never re-establishes the connection).
C21_NoOrderFromStaleSnapshot ==
    [][Len(legs') > Len(legs) => bidConn]_vars

\* C22: the sell leg of an iteration is quantized with the sizeDecimals and
\* priceDecimals its buy leg was quantized with.
C22_MarketParametersFixed ==
    [][(sent.side = "buy" /\ sent'.side = "sell") =>
          (sent'.sz_dec = sent.sz_dec /\ sent'.px_dec = sent.px_dec)]_vars

\* The texts numbered from..to-1, with no newline at their end.
Texts(from, to) == [i \in 1..Max(0, to - from) |-> <<from + i - 1, 0>>]

\* C25: the buffer holds the last MAX_LOGS lines appended, in order;
\* LOG_NEXT counts the lines ever appended; logs(since) answers LOG_NEXT and
\* the retained lines whose global index is at least since.
C25_LogBufferAndLogs ==
    /\ Len(LOGS) <= MAX_LOGS
    /\ LOG_NEXT = log_calls
    /\ LOGS = Texts(Max(0, log_calls - MAX_LOGS), log_calls)
    /\ lg_out.n = 1 =>
          /\ lg_out.next = lg_out.at
          /\ lg_out.lines =
                Texts(Max(lg_out.since, Max(0, lg_out.at - MAX_LOGS)), lg_out.at)

\* C23: every call of start_bot_subprocess comes to an end, answered, with
\* BOT_LOCK released.
C23_StartTerminates ==
    (web_pc = "start") ~> (web_pc = "idle" /\ BOT_LOCK = "free")

\* C24: at most one bot subprocess is alive; a start answered while the bot
\* runs is an error and leaves the handle; after a stop answered True the
\* handle is cleared and the signals sent are SIGINT, SIGTERM, SIGKILL in
\* that order, as far as they went.
C24_AtMostOneBot ==
    /\ [](Cardinality(procs) <= 1)
    /\ [][(web_pc = "start" /\ web_pc' = "idle" /\ BOT_PROC # 0 /\ BOT_PROC \in procs')
            => (~web_log'[Len(web_log')].ok /\ BOT_PROC' = BOT_PROC /\ launched' = launched)]_vars
    /\ [][(web_pc = "stop" /\ web_pc' = "idle" /\ web_log'[Len(web_log')].ok)
            => (BOT_PROC' = 0 /\ signals' \in {SignalsSent(h) : h \in {"sigint", "sigterm", "sigkill"}})]_vars

====
